---- MODULE Spec2Model ----
(***************************************************************************)
(* Model of the ST3215 servo tools: cupi/change_id.py (the ID changer, in  *)
(* direct and interactive mode) and cupi/custom_list.py (the reporter).    *)
(* One process invocation is one run; runs follow one another on the same  *)
(* bus.  The servo driver (package st3215) is the environment: its calls   *)
(* are recorded in `calls` and its answers are either truthful about the   *)
(* bus or arbitrary (a stub, or a bus that answers unreliably).            *)
(***************************************************************************)
EXTENDS Integers, Sequences, FiniteSets, TLC

VARIABLES
    bus,          \* the IDs stored in the EEPROMs of the connected servos, in ascending order
    truthful,     \* whether the driver's ping / scan / write results reflect the bus
    runs,         \* process invocations started so far
    prev,         \* <<current_id, new_id>> of the previous run when it was a successful direct change
    tool,         \* which script this run executes
    argv,         \* sys.argv[1:], each argument a sequence of characters
    port,         \* what os.getenv("ST3215_DEV") returned, NotRead before the call
    pc,           \* position in the script
    fn,           \* the function being executed
    importTried,  \* the import statement of the driver has been executed
    current_id,
    new_id,
    servo_ids,    \* result of the last ListServos()
    located,      \* return value of find_single_servo
    result,       \* return value of ChangeId
    confirm,      \* the normalised answer to "Proceed? (y/n)"
    prompts,      \* iterations of the "Enter new ID" loop that re-prompted
    idx,          \* reporter: index in servo_ids
    fld,          \* reporter: which telemetry field is read next
    calls,        \* driver calls of this run, in order
    busAtStart,   \* the bus when this run started
    out,          \* the kind of the last message the run printed
    exitCode      \* process exit status, NoExit while running

vars == <<bus, truthful, runs, prev, tool, argv, port, pc, fn,
          importTried, current_id, new_id, servo_ids, located, result, confirm,
          prompts, idx, fld, calls, busAtStart, out, exitCode>>

\* ---------------------------------------------------------------- bounds

MaxServos == 2
MaxRuns == 2
MaxPrompts == 1

\* ------------------------------------------------------- program constants

MinId == 1
MaxId == 253

\* Python's None where an ID is expected: no value a scan or int() yields here
NoId == 0 - 1000
NoExit == 0 - 1

ValidId(i) == MinId <= i /\ i <= MaxId

\* IDs a servo's EEPROM may hold in the model: below the range, its ends, one inside
BusIds == {MinId - 1, MinId, MinId + 1, MaxId}

\* ------------------------------------------------------- Python built-ins

Digits == <<"0", "1", "2", "3", "4", "5", "6", "7", "8", "9">>

IsSpace(c) == c \in {" ", "\t"}

RECURSIVE LStrip(_)
LStrip(s) == IF s # <<>> /\ IsSpace(Head(s)) THEN LStrip(Tail(s)) ELSE s

RECURSIVE RStrip(_)
RStrip(s) ==
    IF s # <<>> /\ IsSpace(s[Len(s)]) THEN RStrip(SubSeq(s, 1, Len(s) - 1)) ELSE s

\* str.strip()
Strip(s) == RStrip(LStrip(s))

LowerChar(c) ==
    CASE c = "Q" -> "q"
      [] c = "Y" -> "y"
      [] c = "N" -> "n"
      [] c = "E" -> "e"
      [] c = "S" -> "s"
      [] OTHER -> c

\* str.lower()
Lower(s) == [i \in 1..Len(s) |-> LowerChar(s[i])]

IsDigit(c) == \E d \in 1..10 : Digits[d] = c

DigitVal(c) == (CHOOSE d \in 1..10 : Digits[d] = c) - 1

RECURSIVE DigitsVal(_)
DigitsVal(s) ==
    IF s = <<>> THEN 0 ELSE 10 * DigitsVal(SubSeq(s, 1, Len(s) - 1)) + DigitVal(s[Len(s)])

\* int(s): surrounding whitespace ignored, an optional sign, then decimal digits;
\* anything else raises ValueError
PyInt(s) ==
    LET t == Strip(s)
        signed == t # <<>> /\ t[1] \in {"+", "-"}
        d == IF signed THEN Tail(t) ELSE t
    IN  IF d # <<>> /\ \A i \in 1..Len(d) : IsDigit(d[i])
        THEN [ok |-> TRUE,
              val |-> IF signed /\ t[1] = "-" THEN 0 - DigitsVal(d) ELSE DigitsVal(d)]
        ELSE [ok |-> FALSE, val |-> 0]

\* ------------------------------------------------------------ the inputs

ArgTokens == { <<"0">>, <<"1">>, <<"2">>, <<"2", "5", "3">>, <<"2", "5", "4">>, <<"x">> }

ArgVectors ==
    {<<>>} \cup {<<a>> : a \in {<<"1">>}}
           \cup {<<a, b>> : a \in ArgTokens, b \in ArgTokens}
           \cup {<<a, b, c>> : a \in {<<"1">>}, b \in {<<"2">>}, c \in {<<"3">>}}

PromptLines == { <<"q">>, <<" ", "Q">>, <<"x">>, <<>>, <<"0">>, <<"2", "5", "4">>,
                 <<"-", "1">>, <<"1">>, <<"+", "2">>, <<" ", "2", "5", "3", " ">> }

ConfirmLines == { <<"y">>, <<" ", "Y", " ">>, <<"n">>, <<>>, <<"y", "e", "s">> }

\* os.getenv: None when the variable is unset, else its value
EnvValues == {"None", "", "/dev/ttyUSB0"}

Tools == {"change_id", "custom_list"}

\* ------------------------------------------------------------- the driver

RECURSIVE Ascending(_)
Ascending(S) ==
    IF S = {} THEN <<>>
    ELSE LET m == CHOOSE x \in S : \A y \in S : x <= y
         IN  <<m>> \o Ascending(S \ {m})

Present(id) == \E i \in 1..Len(bus) : bus[i] = id

SeqsUpTo(S, n) == UNION { [1..k -> S] : k \in 0..n }

IsSorted(s) == \A i \in 1..(Len(s) - 1) : s[i] <= s[i + 1]

\* the buses of up to MaxServos servos
Buses == { b \in SeqsUpTo(BusIds, MaxServos) : IsSorted(b) }

\* PingServo(id)
PingAnswers(id) == IF truthful THEN {Present(id)} ELSE BOOLEAN

\* ListServos(): the driver pings every ID in ascending order
ScanAnswers ==
    IF truthful THEN {Ascending({bus[i] : i \in 1..Len(bus)})}
    ELSE SeqsUpTo(BusIds, MaxServos)

\* ChangeId(cur, new): None on success, an error text otherwise
WriteAnswers(cur) ==
    IF truthful /\ ~Present(cur) THEN {"error"} ELSE {"None", "error"}

\* the bus after ChangeId(cur, new) returned r
Written(cur, new, r) ==
    IF r = "None"
    THEN SortSeq([i \in 1..Len(bus) |-> IF bus[i] = cur THEN new ELSE bus[i]],
                 LAMBDA x, y : x < y)
    ELSE bus

Call(op, a, r, l) == [op |-> op, a |-> a, r |-> r, l |-> l]

BoolStr(b) == IF b THEN "True" ELSE "False"

\* ------------------------------------------------------------ the program

runConst == <<truthful, runs, prev, tool, argv, busAtStart>>
runConstP == <<runConst, port>>
locals == <<current_id, new_id, servo_ids, located, result, confirm, prompts, idx, fld>>

Init ==
    /\ bus \in Buses
    /\ truthful = FALSE
    /\ runs = 0
    /\ prev = <<>>
    /\ tool = "change_id"
    /\ argv = <<>>
    /\ port = "NotRead"
    /\ pc = "idle"
    /\ fn = "main"
    /\ importTried = FALSE
    /\ current_id = NoId
    /\ new_id = NoId
    /\ servo_ids = <<>>
    /\ located = NoId
    /\ result = "unset"
    /\ confirm = <<>>
    /\ prompts = 0
    /\ idx = 0
    /\ fld = 0
    /\ calls = <<>>
    /\ busAtStart = bus
    /\ out = "nothing"
    /\ exitCode = NoExit

\* the previous run, when it was a direct change of one ID to another that exited 0
Summary ==
    IF pc = "done" /\ fn = "change_servo_id" /\ exitCode = 0 /\ current_id # new_id
    THEN <<current_id, new_id>> ELSE <<>>

\* a new process: the shell starts one of the scripts with some arguments
\* (custom_list.py takes none)
StartRun ==
    /\ pc \in {"idle", "done"}
    /\ runs < MaxRuns
    /\ \E t \in Tools, av \in ArgVectors :
        /\ t = "custom_list" => av = <<>>
        /\ tool' = t
        /\ argv' = av
    /\ port' = "NotRead"
    /\ runs' = runs + 1
    /\ prev' = Summary
    /\ pc' = "main"
    /\ fn' = "main"
    /\ importTried' = FALSE
    /\ current_id' = NoId
    /\ new_id' = NoId
    /\ servo_ids' = <<>>
    /\ located' = NoId
    /\ result' = "unset"
    /\ confirm' = <<>>
    /\ prompts' = 0
    /\ idx' = 0
    /\ fld' = 0
    /\ calls' = <<>>
    /\ busAtStart' = bus
    /\ out' = "nothing"
    /\ exitCode' = NoExit
    /\ UNCHANGED <<bus, truthful>>

\* the process ends with exit status code after printing msg
Finish(code, msg) ==
    /\ pc' = "done"
    /\ exitCode' = code
    /\ out' = msg

\* what a plain `return` of the script's function makes the process exit with:
\* change_servo_id's False becomes sys.exit(1), the other two fall off the end
ReturnCode(ok) == IF fn = "change_servo_id" /\ ~ok THEN 1 ELSE 0

\* ---- change_id.py __main__

MainInteractive ==
    /\ pc = "main" /\ tool = "change_id"
    /\ Len(argv) = 0
    /\ fn' = "interactive_mode"
    /\ pc' = "import"
    /\ UNCHANGED <<bus, runConstP, importTried, locals, calls, out, exitCode>>

MainUsage ==
    /\ pc = "main" /\ tool = "change_id"
    /\ Len(argv) \notin {0, 2}
    /\ Finish(1, "usage")
    /\ UNCHANGED <<bus, runConstP, fn, importTried, locals, calls>>

MainValueError ==
    /\ pc = "main" /\ tool = "change_id"
    /\ Len(argv) = 2
    /\ ~PyInt(argv[1]).ok \/ ~PyInt(argv[2]).ok
    /\ Finish(1, "not_integers")
    /\ UNCHANGED <<bus, runConstP, fn, importTried, locals, calls>>

MainCurrentRange ==
    /\ pc = "main" /\ tool = "change_id"
    /\ Len(argv) = 2
    /\ PyInt(argv[1]).ok /\ PyInt(argv[2]).ok
    /\ ~ValidId(PyInt(argv[1]).val)
    /\ current_id' = PyInt(argv[1]).val
    /\ new_id' = PyInt(argv[2]).val
    /\ Finish(1, "current_range")
    /\ UNCHANGED <<bus, runConstP, fn, importTried, servo_ids, located, result,
                   confirm, prompts, idx, fld, calls>>

\* mutant: the range check of new_id is missing
MainNewRangeUnchecked ==
    /\ pc = "main" /\ tool = "change_id"
    /\ Len(argv) = 2
    /\ PyInt(argv[1]).ok /\ PyInt(argv[2]).ok
    /\ ValidId(PyInt(argv[1]).val)
    /\ ~ValidId(PyInt(argv[2]).val)
    /\ current_id' = PyInt(argv[1]).val
    /\ new_id' = PyInt(argv[2]).val
    /\ fn' = "change_servo_id"
    /\ pc' = "import"
    /\ UNCHANGED <<bus, runConstP, importTried, servo_ids, located, result,
                   confirm, prompts, idx, fld, calls, out, exitCode>>

MainNewRange ==
    /\ pc = "main" /\ tool = "change_id"
    /\ Len(argv) = 2
    /\ PyInt(argv[1]).ok /\ PyInt(argv[2]).ok
    /\ ValidId(PyInt(argv[1]).val)
    /\ ~ValidId(PyInt(argv[2]).val)
    /\ current_id' = PyInt(argv[1]).val
    /\ new_id' = PyInt(argv[2]).val
    /\ Finish(1, "new_range")
    /\ UNCHANGED <<bus, runConstP, fn, importTried, servo_ids, located, result,
                   confirm, prompts, idx, fld, calls>>

MainDirect ==
    /\ pc = "main" /\ tool = "change_id"
    /\ Len(argv) = 2
    /\ PyInt(argv[1]).ok /\ PyInt(argv[2]).ok
    /\ ValidId(PyInt(argv[1]).val)
    /\ ValidId(PyInt(argv[2]).val)
    /\ current_id' = PyInt(argv[1]).val
    /\ new_id' = PyInt(argv[2]).val
    /\ fn' = "change_servo_id"
    /\ pc' = "import"
    /\ UNCHANGED <<bus, runConstP, importTried, servo_ids, located, result,
                   confirm, prompts, idx, fld, calls, out, exitCode>>

\* ---- custom_list.py __main__

MainReporter ==
    /\ pc = "main" /\ tool = "custom_list"
    /\ fn' = "list_servos"
    /\ pc' = "import"
    /\ UNCHANGED <<bus, runConstP, importTried, locals, calls, out, exitCode>>

\* ---- the first statements of change_servo_id, interactive_mode and list_servos

\* from st3215 import ST3215
ImportDriver ==
    /\ pc = "import"
    /\ importTried' = TRUE
    /\ pc' = "get_serial_port"
    /\ UNCHANGED <<bus, runConstP, fn, locals, calls, out, exitCode>>

\* the package is not installed: ImportError, which nothing catches
ImportError ==
    /\ pc = "import"
    /\ importTried' = TRUE
    /\ Finish(1, "ImportError")
    /\ UNCHANGED <<bus, runConstP, fn, locals, calls>>

\* if not port
PortMissing(p) == p = "None" \/ p = ""

\* mutant: `if port is None` in place of `if not port`
GetSerialPortNoneOnly ==
    /\ pc = "get_serial_port"
    /\ \E p \in EnvValues :
        /\ p # "None"
        /\ port' = p
    /\ pc' = "open"
    /\ UNCHANGED <<bus, runConst, fn, importTried, locals, calls, out, exitCode>>

\* port = os.getenv("ST3215_DEV"); return port
GetSerialPort ==
    /\ pc = "get_serial_port"
    /\ \E p \in EnvValues :
        /\ ~PortMissing(p)
        /\ port' = p
    /\ pc' = "open"
    /\ UNCHANGED <<bus, runConst, fn, importTried, locals, calls, out, exitCode>>

\* get_serial_port raises EnvironmentError, which nothing catches
GetSerialPortError ==
    /\ pc = "get_serial_port"
    /\ \E p \in EnvValues :
        /\ PortMissing(p)
        /\ port' = p
    /\ Finish(1, "EnvironmentError")
    /\ UNCHANGED <<bus, runConst, fn, importTried, locals, calls>>

AfterOpen ==
    CASE fn = "change_servo_id" -> "ping_current"
      [] fn = "interactive_mode" -> "find_single_servo"
      [] OTHER -> "scan"

\* servo_bus = ST3215(port)
OpenPort ==
    /\ pc = "open"
    /\ calls' = Append(calls, Call("open", <<>>, "ok", <<>>))
    /\ pc' = AfterOpen
    /\ UNCHANGED <<bus, runConstP, fn, importTried, locals, out, exitCode>>

\* ST3215(port) raises; the except clause prints and returns
OpenPortError ==
    /\ pc = "open"
    /\ calls' = Append(calls, Call("open", <<>>, "raise", <<>>))
    /\ Finish(ReturnCode(FALSE), "open_error")
    /\ UNCHANGED <<bus, runConstP, fn, importTried, locals>>

\* ---- change_servo_id

\* mutant: the answer of the ping is ignored
PingCurrentIgnored ==
    /\ pc = "ping_current"
    /\ \E b \in PingAnswers(current_id) :
        calls' = Append(calls, Call("PingServo", <<current_id>>, BoolStr(b), <<>>))
    /\ pc' = "check_new"
    /\ UNCHANGED <<bus, runConstP, fn, importTried, locals, out, exitCode>>

\* if not servo_bus.PingServo(current_id)
PingCurrent ==
    /\ pc = "ping_current"
    /\ \E b \in PingAnswers(current_id) :
        /\ calls' = Append(calls, Call("PingServo", <<current_id>>, BoolStr(b), <<>>))
        /\ IF b THEN /\ pc' = "check_new"
                     /\ UNCHANGED <<out, exitCode>>
           ELSE /\ pc' = "diag_scan"
                /\ out' = "no_servo"
                /\ UNCHANGED exitCode
    /\ UNCHANGED <<bus, runConstP, fn, importTried, locals>>

\* mutant: the failed precondition returns True
DiagnosticScanReturnsTrue ==
    /\ pc = "diag_scan"
    /\ \E l \in ScanAnswers :
        /\ calls' = Append(calls, Call("ListServos", <<>>, "list", l))
        /\ servo_ids' = l
    /\ Finish(0, "no_servo")
    /\ UNCHANGED <<bus, runConstP, fn, importTried, current_id, new_id, located,
                   result, confirm, prompts, idx, fld>>

\* the diagnostic scan after the failed ping, then return False
DiagnosticScan ==
    /\ pc = "diag_scan"
    /\ \E l \in ScanAnswers :
        /\ calls' = Append(calls, Call("ListServos", <<>>, "list", l))
        /\ servo_ids' = l
    /\ Finish(1, "no_servo")
    /\ UNCHANGED <<bus, runConstP, fn, importTried, current_id, new_id, located,
                   result, confirm, prompts, idx, fld>>

\* current_id != new_id is false: `and` does not evaluate the ping
CheckNewSame ==
    /\ pc = "check_new"
    /\ current_id = new_id
    /\ pc' = "change"
    /\ UNCHANGED <<bus, runConstP, fn, importTried, locals, calls, out, exitCode>>

\* mutant: the answer of the ping on new_id is ignored
CheckNewPingIgnored ==
    /\ pc = "check_new"
    /\ current_id # new_id
    /\ \E b \in PingAnswers(new_id) :
        calls' = Append(calls, Call("PingServo", <<new_id>>, BoolStr(b), <<>>))
    /\ pc' = "change"
    /\ UNCHANGED <<bus, runConstP, fn, importTried, locals, out, exitCode>>

\* if current_id != new_id and servo_bus.PingServo(new_id)
CheckNewPing ==
    /\ pc = "check_new"
    /\ current_id # new_id
    /\ \E b \in PingAnswers(new_id) :
        /\ calls' = Append(calls, Call("PingServo", <<new_id>>, BoolStr(b), <<>>))
        /\ IF b THEN Finish(1, "in_use")
           ELSE /\ pc' = "change"
                /\ UNCHANGED <<out, exitCode>>
    /\ UNCHANGED <<bus, runConstP, fn, importTried, locals>>

\* result = servo_bus.ChangeId(current_id, new_id), and the test of result
ChangeDirect ==
    /\ pc = "change" /\ fn = "change_servo_id"
    /\ \E r \in WriteAnswers(current_id) :
        /\ calls' = Append(calls, Call("ChangeId", <<current_id, new_id>>, r, <<>>))
        /\ bus' = Written(current_id, new_id, r)
        /\ result' = r
        /\ IF r = "None" THEN /\ pc' = "verify"
                              /\ out' = "changed"
                              /\ UNCHANGED exitCode
           ELSE Finish(1, "write_failed")
    /\ UNCHANGED <<runConstP, fn, importTried, current_id, new_id, servo_ids,
                   located, confirm, prompts, idx, fld>>

\* mutant: the verification ping decides the return value
VerifyDirectDecides ==
    /\ pc = "verify" /\ fn = "change_servo_id"
    /\ \E b \in PingAnswers(new_id) :
        /\ calls' = Append(calls, Call("PingServo", <<new_id>>, BoolStr(b), <<>>))
        /\ Finish(IF b THEN 0 ELSE 1, IF b THEN "verified" ELSE "changed")
    /\ UNCHANGED <<bus, runConstP, fn, importTried, locals>>

\* if servo_bus.PingServo(new_id): print verified; return True either way
VerifyDirect ==
    /\ pc = "verify" /\ fn = "change_servo_id"
    /\ \E b \in PingAnswers(new_id) :
        /\ calls' = Append(calls, Call("PingServo", <<new_id>>, BoolStr(b), <<>>))
        /\ Finish(0, IF b THEN "verified" ELSE "changed")
    /\ UNCHANGED <<bus, runConstP, fn, importTried, locals>>

\* ---- find_single_servo and interactive_mode

\* mutant: the first of several servos is returned
FindSingleFirst(l) ==
    IF Len(l) = 0 THEN [ret |-> NoId, msg |-> "none"]
    ELSE [ret |-> l[1], msg |-> "silent"]

\* find_single_servo after ListServos returned l: the value returned (NoId for
\* None) and the message printed
FindSingle(l) ==
    IF Len(l) = 0 THEN [ret |-> NoId, msg |-> "none"]
    ELSE IF Len(l) > 1 THEN [ret |-> NoId, msg |-> "ambiguous"]
    ELSE [ret |-> l[1], msg |-> "silent"]

\* current_id = find_single_servo(servo_bus); if current_id is None: return
FindSingleServo ==
    /\ pc = "find_single_servo"
    /\ \E l \in ScanAnswers :
        /\ calls' = Append(calls, Call("ListServos", <<>>, "list", l))
        /\ servo_ids' = l
        /\ located' = FindSingle(l).ret
        /\ current_id' = FindSingle(l).ret
        /\ IF FindSingle(l).ret = NoId THEN Finish(0, FindSingle(l).msg)
           ELSE /\ pc' = "read_position"
                /\ out' = "found"
                /\ UNCHANGED exitCode
    /\ UNCHANGED <<bus, runConstP, fn, importTried, new_id, result, confirm,
                   prompts, idx, fld>>

ReadAnswers == {"value", "None"}

ReadPosition ==
    /\ pc = "read_position"
    /\ \E v \in ReadAnswers :
        calls' = Append(calls, Call("ReadPosition", <<current_id>>, v, <<>>))
    /\ pc' = "read_voltage"
    /\ UNCHANGED <<bus, runConstP, fn, importTried, locals, out, exitCode>>

ReadVoltage ==
    /\ pc = "read_voltage"
    /\ \E v \in ReadAnswers :
        calls' = Append(calls, Call("ReadVoltage", <<current_id>>, v, <<>>))
    /\ pc' = "prompt"
    /\ out' = "valid_ids"
    /\ UNCHANGED <<bus, runConstP, fn, importTried, locals, exitCode>>

\* the line typed at "Enter new ID (or 'q' to quit): ", stripped
IsQuit(line) == Lower(Strip(line)) = <<"q">>

PromptQuit ==
    /\ pc = "prompt"
    /\ \E line \in PromptLines : IsQuit(line)
    /\ Finish(0, "cancelled")
    /\ UNCHANGED <<bus, runConstP, fn, importTried, locals, calls>>

\* int() raises ValueError: the loop prompts again
PromptValueError ==
    /\ pc = "prompt"
    /\ prompts < MaxPrompts
    /\ \E line \in PromptLines : ~IsQuit(line) /\ ~PyInt(Strip(line)).ok
    /\ prompts' = prompts + 1
    /\ out' = "not_a_number"
    /\ UNCHANGED <<bus, runConstP, fn, importTried, current_id, new_id, servo_ids,
                   located, result, confirm, idx, fld, calls, pc, exitCode>>

\* if not 1 <= new_id <= 253: continue
PromptRange ==
    /\ pc = "prompt"
    /\ prompts < MaxPrompts
    /\ \E line \in PromptLines :
        /\ ~IsQuit(line) /\ PyInt(Strip(line)).ok
        /\ ~ValidId(PyInt(Strip(line)).val)
        /\ new_id' = PyInt(Strip(line)).val
    /\ prompts' = prompts + 1
    /\ out' = "prompt_range"
    /\ UNCHANGED <<bus, runConstP, fn, importTried, current_id, servo_ids,
                   located, result, confirm, idx, fld, calls, pc, exitCode>>

\* mutant: the comparison with current_id is missing
PromptSameAccepted ==
    /\ pc = "prompt"
    /\ \E line \in PromptLines :
        /\ ~IsQuit(line) /\ PyInt(Strip(line)).ok
        /\ ValidId(PyInt(Strip(line)).val)
        /\ PyInt(Strip(line)).val = current_id
        /\ new_id' = PyInt(Strip(line)).val
    /\ pc' = "confirm"
    /\ out' = "about_to_change"
    /\ UNCHANGED <<bus, runConstP, fn, importTried, current_id, servo_ids,
                   located, result, confirm, prompts, idx, fld, calls, exitCode>>

\* if new_id == current_id: return
PromptSame ==
    /\ pc = "prompt"
    /\ \E line \in PromptLines :
        /\ ~IsQuit(line) /\ PyInt(Strip(line)).ok
        /\ ValidId(PyInt(Strip(line)).val)
        /\ PyInt(Strip(line)).val = current_id
        /\ new_id' = PyInt(Strip(line)).val
    /\ Finish(0, "already_has_id")
    /\ UNCHANGED <<bus, runConstP, fn, importTried, current_id, servo_ids,
                   located, result, confirm, prompts, idx, fld, calls>>

\* break
PromptAccept ==
    /\ pc = "prompt"
    /\ \E line \in PromptLines :
        /\ ~IsQuit(line) /\ PyInt(Strip(line)).ok
        /\ ValidId(PyInt(Strip(line)).val)
        /\ PyInt(Strip(line)).val # current_id
        /\ new_id' = PyInt(Strip(line)).val
    /\ pc' = "confirm"
    /\ out' = "about_to_change"
    /\ UNCHANGED <<bus, runConstP, fn, importTried, current_id, servo_ids,
                   located, result, confirm, prompts, idx, fld, calls, exitCode>>

\* input() raises EOFError (standard input closed), which nothing catches
InputEOF ==
    /\ pc \in {"prompt", "confirm"}
    /\ Finish(1, "EOFError")
    /\ UNCHANGED <<bus, runConstP, fn, importTried, locals, calls>>

\* mutant: only the answer n cancels
ConfirmUnlessNo ==
    /\ pc = "confirm"
    /\ \E line \in ConfirmLines :
        /\ confirm' = Lower(Strip(line))
        /\ IF Lower(Strip(line)) = <<"n">> THEN Finish(0, "cancelled")
           ELSE /\ pc' = "change"
                /\ UNCHANGED <<out, exitCode>>
    /\ UNCHANGED <<bus, runConstP, fn, importTried, current_id, new_id, servo_ids,
                   located, result, prompts, idx, fld, calls>>

\* confirm = input("Proceed? (y/n): ").strip().lower(); if confirm != 'y': return
Confirm ==
    /\ pc = "confirm"
    /\ \E line \in ConfirmLines :
        /\ confirm' = Lower(Strip(line))
        /\ IF Lower(Strip(line)) # <<"y">> THEN Finish(0, "cancelled")
           ELSE /\ pc' = "change"
                /\ UNCHANGED <<out, exitCode>>
    /\ UNCHANGED <<bus, runConstP, fn, importTried, current_id, new_id, servo_ids,
                   located, result, prompts, idx, fld, calls>>

\* result = servo_bus.ChangeId(current_id, new_id), and the test of result
ChangeInteractive ==
    /\ pc = "change" /\ fn = "interactive_mode"
    /\ \E r \in WriteAnswers(current_id) :
        /\ calls' = Append(calls, Call("ChangeId", <<current_id, new_id>>, r, <<>>))
        /\ bus' = Written(current_id, new_id, r)
        /\ result' = r
        /\ IF r = "None" THEN /\ pc' = "verify"
                              /\ out' = "changed"
                              /\ UNCHANGED exitCode
           ELSE Finish(0, "write_failed")
    /\ UNCHANGED <<runConstP, fn, importTried, current_id, new_id, servo_ids,
                   located, confirm, prompts, idx, fld>>

VerifyInteractive ==
    /\ pc = "verify" /\ fn = "interactive_mode"
    /\ \E b \in PingAnswers(new_id) :
        /\ calls' = Append(calls, Call("PingServo", <<new_id>>, BoolStr(b), <<>>))
        /\ Finish(0, IF b THEN "verified" ELSE "changed")
    /\ UNCHANGED <<bus, runConstP, fn, importTried, locals>>

\* ---- list_servos

\* servo_ids = servo_bus.ListServos(); if not servo_ids: return
ReporterScan ==
    /\ pc = "scan"
    /\ \E l \in ScanAnswers :
        /\ calls' = Append(calls, Call("ListServos", <<>>, "list", l))
        /\ servo_ids' = l
        /\ IF l = <<>> THEN /\ Finish(0, "none")
                            /\ UNCHANGED <<idx, fld>>
           ELSE /\ pc' = "read"
                /\ idx' = 1
                /\ fld' = 1
                /\ out' = "found_n"
                /\ UNCHANGED exitCode
    /\ UNCHANGED <<bus, runConstP, fn, importTried, current_id, new_id, located,
                   result, confirm, prompts>>

FieldOps == <<"ReadPosition", "ReadVoltage", "ReadTemperature", "ReadMode", "ReadLoad">>

\* one read of the loop body; a None is skipped, never fatal
ReporterRead ==
    /\ pc = "read"
    /\ \E v \in ReadAnswers :
        /\ calls' = Append(calls, Call(FieldOps[fld], <<servo_ids[idx]>>, "any", <<>>))
        /\ IF fld < Len(FieldOps)
           THEN /\ fld' = fld + 1
                /\ out' = (IF v = "None" THEN "skipped" ELSE "field")
                /\ UNCHANGED <<idx, pc, exitCode>>
           ELSE IF idx < Len(servo_ids)
           THEN /\ fld' = 1
                /\ idx' = idx + 1
                /\ out' = (IF v = "None" THEN "skipped" ELSE "field")
                /\ UNCHANGED <<pc, exitCode>>
           ELSE /\ Finish(0, "scan_complete")
                /\ UNCHANGED <<idx, fld>>
    /\ UNCHANGED <<bus, runConstP, fn, importTried, current_id, new_id, servo_ids,
                   located, result, confirm, prompts>>

Next ==
    \/ StartRun
    \/ MainInteractive \/ MainUsage \/ MainValueError \/ MainCurrentRange
    \/ MainNewRange \/ MainDirect \/ MainReporter
    \/ ImportDriver \/ ImportError \/ GetSerialPort \/ GetSerialPortError
    \/ OpenPort \/ OpenPortError
    \/ PingCurrent \/ DiagnosticScan \/ CheckNewSame \/ CheckNewPing
    \/ ChangeDirect \/ VerifyDirect
    \/ FindSingleServo \/ ReadPosition \/ ReadVoltage
    \/ PromptQuit \/ PromptValueError \/ PromptRange \/ PromptSame \/ PromptAccept
    \/ InputEOF \/ Confirm \/ ChangeInteractive \/ VerifyInteractive
    \/ ReporterScan \/ ReporterRead

Spec == Init /\ [][Next]_vars

\* the same program on a bus whose servos have distinct IDs in [MinId, MaxId],
\* behind a driver whose answers reflect the bus
Distinct(b) == \A i, j \in 1..Len(b) : i # j => b[i] # b[j]

InRange(b) == \A i \in 1..Len(b) : ValidId(b[i])

InitTruthful ==
    /\ bus \in { b \in Buses : Distinct(b) /\ InRange(b) }
    /\ truthful = TRUE
    /\ runs = 0
    /\ prev = <<>>
    /\ tool = "change_id"
    /\ argv = <<>>
    /\ port = "NotRead"
    /\ pc = "idle"
    /\ fn = "main"
    /\ importTried = FALSE
    /\ current_id = NoId
    /\ new_id = NoId
    /\ servo_ids = <<>>
    /\ located = NoId
    /\ result = "unset"
    /\ confirm = <<>>
    /\ prompts = 0
    /\ idx = 0
    /\ fld = 0
    /\ calls = <<>>
    /\ busAtStart = bus
    /\ out = "nothing"
    /\ exitCode = NoExit

SpecTruthful == InitTruthful /\ [][Next]_vars

\* ------------------------------------------------------------- properties

\* the positions in calls of the calls of op
Ops(op) == { i \in 1..Len(calls) : calls[i].op = op }

NoWrite == Ops("ChangeId") = {}

OpNames == [i \in 1..Len(calls) |-> calls[i].op]

Direct == fn = "change_servo_id"
Interactive == fn = "interactive_mode"

\* C1 as stated: at the moment an out-of-range current_id or new_id is rejected,
\* in direct mode or at the interactive prompt, no driver call (open, ListServos,
\* PingServo, Read*, ChangeId) has been made.
C1_RejectedBeforeAnyBusIO ==
    out \in {"current_range", "new_range", "prompt_range"} => calls = <<>>

\* C1 amended: direct mode rejects an out-of-range current_id or new_id with exit
\* status 1 before the driver is imported or called, and never passes an
\* out-of-range ID to the driver; interactive mode rejects an out-of-range new_id
\* at the prompt when the only driver calls made are open, ListServos,
\* ReadPosition and ReadVoltage, and never passes an out-of-range new_id to ChangeId.
C1_RangeRejection ==
    /\ out \in {"current_range", "new_range"} =>
          /\ calls = <<>> /\ ~importTried /\ pc = "done" /\ exitCode = 1
          /\ ~ValidId(current_id) \/ ~ValidId(new_id)
    /\ out = "prompt_range" =>
          /\ ~ValidId(new_id)
          /\ pc = "prompt"
          /\ OpNames = <<"open", "ListServos", "ReadPosition", "ReadVoltage">>
    /\ Direct => \A i \in Ops("PingServo") \cup Ops("ChangeId") :
                    \A k \in 1..Len(calls[i].a) : ValidId(calls[i].a[k])
    /\ Interactive => \A i \in Ops("ChangeId") : ValidId(calls[i].a[2])

\* C1 witness: the broadcast address was typed at the interactive prompt and rejected
C1_Witness == Interactive /\ out = "prompt_range" /\ new_id = MaxId + 1

\* C2: every ChangeId(current_id, new_id) call with new_id # current_id is preceded,
\* in the same run, by a PingServo(new_id) that answered False.
C2_CollisionGuard ==
    \A i \in Ops("ChangeId") :
        calls[i].a[1] # calls[i].a[2] =>
            \E j \in 1..(i - 1) :
                calls[j] = Call("PingServo", <<calls[i].a[2]>>, "False", <<>>)

\* a scan of exactly <<id>>, or a ping of id that answered True
PresenceChecked(id, j) ==
    \/ calls[j] = Call("PingServo", <<id>>, "True", <<>>)
    \/ calls[j] = Call("ListServos", <<>>, "list", <<id>>)

\* C3: every ChangeId call is preceded by a successful presence check of
\* current_id (the ping of direct mode, the one-element scan of interactive mode),
\* and when the precondition ping of direct mode answers False the run makes no
\* ChangeId call, leaves the bus as it was, makes at most the diagnostic
\* ListServos call afterwards and exits 1.
C3_NoWriteWithoutPresence ==
    /\ \A i \in Ops("ChangeId") :
          \E j \in 1..(i - 1) : PresenceChecked(calls[i].a[1], j)
    /\ (Direct /\ Len(calls) >= 2 /\ calls[2].r = "False") =>
          /\ calls[2] = Call("PingServo", <<current_id>>, "False", <<>>)
          /\ NoWrite
          /\ bus = busAtStart
          /\ Len(calls) <= 3
          /\ Len(calls) = 3 => calls[3].op = "ListServos"
          /\ pc = "done" => exitCode = 1

\* C3 witness: direct mode ended after the failed ping and the diagnostic scan
C3_Witness ==
    /\ Direct /\ pc = "done" /\ Len(calls) = 3
    /\ calls[2] = Call("PingServo", <<current_id>>, "False", <<>>)
    /\ calls[3].op = "ListServos"

\* find_single_servo has returned
Located == Interactive /\ Ops("ListServos") # {}

\* C4: once find_single_servo has returned, its outcome is decided by the scan
\* alone: the message "none" iff the scan is empty, the message "ambiguous" iff
\* it has more than one element, an ID returned iff it has exactly one, and then
\* that element; in the none and ambiguous cases interactive mode has ended
\* with no further driver call.
C4_LocatorOutcomes ==
    Located =>
        /\ out = "none" <=> Len(servo_ids) = 0
        /\ out = "ambiguous" <=> Len(servo_ids) > 1
        /\ located # NoId <=> Len(servo_ids) = 1
        /\ Len(servo_ids) = 1 => located = servo_ids[1] /\ current_id = servo_ids[1]
        /\ Len(servo_ids) # 1 =>
              /\ pc = "done" /\ exitCode = 0
              /\ NoWrite
              /\ OpNames = <<"open", "ListServos">>

\* C4 witness: two servos answered the scan and interactive mode ended
C4_Witness == Located /\ Len(servo_ids) = 2 /\ out = "ambiguous" /\ pc = "done"

\* a finished run of the ID changer started with two arguments
DirectDone == tool = "change_id" /\ Len(argv) = 2 /\ pc = "done"

\* C5: a direct-mode process exits 0 iff ChangeId was called and returned None,
\* and exits 1 otherwise, whatever the verification ping answered.
C5_DirectExitCode ==
    DirectDone =>
        /\ exitCode \in {0, 1}
        /\ exitCode = 0 <=> \E i \in Ops("ChangeId") : calls[i].r = "None"
        /\ out \in {"not_integers", "current_range", "new_range", "ImportError",
                    "EnvironmentError", "open_error", "no_servo", "in_use",
                    "write_failed"} => exitCode = 1

\* C5 witness: the write succeeded, the verification ping got no answer, exit 0
C5_Witness ==
    /\ DirectDone /\ exitCode = 0
    /\ calls[Len(calls)] = Call("PingServo", <<new_id>>, "False", <<>>)

\* C6: in interactive mode every ChangeId call is made with the ID found by the
\* scan and an entered new_id in [MinId, MaxId] different from it, after the
\* confirmation answer (stripped and lower-cased, as the code compares it) was y;
\* a cancelled run, and a run still at the prompt or at the confirmation, has
\* made no ChangeId call.
C6_WriteOnlyAfterConfirmation ==
    Interactive =>
        /\ \A i \in Ops("ChangeId") :
              /\ confirm = <<"y">>
              /\ ValidId(new_id) /\ new_id # current_id
              /\ calls[i].a = <<current_id, new_id>>
              /\ current_id = located
        /\ (pc = "done" /\ confirm # <<"y">>) => NoWrite
        /\ out = "cancelled" => pc = "done" /\ NoWrite
        /\ pc \in {"prompt", "confirm"} => NoWrite

\* C6 witness: the write was issued in interactive mode
C6_Witness == Interactive /\ ~NoWrite /\ confirm = <<"y">>

\* C7 as stated: in interactive mode, once the entered new_id equals current_id
\* the run has ended as a no-op, with no confirmation and no ChangeId call.
C7_EqualEndsRun ==
    (Interactive /\ current_id # NoId /\ new_id = current_id) =>
        pc = "done" /\ confirm = <<>> /\ NoWrite

\* C7 amended: in interactive mode, once an entered new_id in [MinId, MaxId]
\* equals current_id the run has ended with exit status 0, no confirmation was
\* requested and no ChangeId call was made; and no ChangeId call of interactive
\* mode is ever made with new_id equal to current_id.
C7_EqualInRangeEndsRun ==
    /\ (Interactive /\ ValidId(new_id) /\ new_id = current_id) =>
          /\ pc = "done" /\ exitCode = 0 /\ out = "already_has_id"
          /\ confirm = <<>>
          /\ NoWrite
    /\ Interactive => \A i \in Ops("ChangeId") : calls[i].a[1] # calls[i].a[2]

\* C7 witness: the current ID was typed at the prompt and the run ended
C7_Witness == Interactive /\ out = "already_has_id" /\ new_id = current_id /\ pc = "done"

\* C8 as stated: when ST3215_DEV is unset or empty the run fails with the
\* configuration error before the driver import was attempted and before any
\* driver call.
C8_ConfigErrorBeforeImport ==
    PortMissing(port) => out = "EnvironmentError" /\ ~importTried /\ calls = <<>>

\* C8 amended: when get_serial_port finds ST3215_DEV unset or empty, in list_servos,
\* change_servo_id or interactive_mode, the process ends at once with the
\* configuration error and exit status 1, after the driver import statement has
\* run and before any driver connection is opened; no driver call is ever made
\* without a non-empty port.
C8_ConfigErrorBeforeOpen ==
    /\ PortMissing(port) =>
          /\ pc = "done" /\ out = "EnvironmentError" /\ exitCode = 1
          /\ importTried
          /\ calls = <<>>
          /\ bus = busAtStart
    /\ calls # <<>> => port # "NotRead" /\ ~PortMissing(port)

\* C8 witness: the reporter found ST3215_DEV empty
C8_Witness == fn = "list_servos" /\ port = "" /\ out = "EnvironmentError"

\* the run repeats the previous run, a direct change that exited 0
Replay == prev # <<>> /\ Direct /\ <<current_id, new_id>> = prev

\* C9: a direct-mode run that repeats the successful change of the previous run
\* (current_id # new_id) makes no ChangeId call and leaves the bus as it found
\* it; its ping of current_id answers False and it exits 1.
C9_ReplayChangesNothing ==
    Replay =>
        /\ NoWrite
        /\ bus = busAtStart
        /\ Len(calls) >= 2 => calls[2] = Call("PingServo", <<current_id>>, "False", <<>>)
        /\ pc = "done" => exitCode = 1

\* C9 witness: the replay ended after the failed ping and the diagnostic scan
C9_Witness == Replay /\ pc = "done" /\ out = "no_servo" /\ Len(calls) = 3

\* C10: on a bus that started with distinct IDs in [MinId, MaxId], behind a
\* truthful driver, after any sequence of runs the servos still have distinct
\* IDs in [MinId, MaxId], their number is unchanged, and each run has made at
\* most one ChangeId call.
C10_UniqueIds ==
    /\ Distinct(bus) /\ InRange(bus)
    /\ Len(bus) = Len(busAtStart)
    /\ Cardinality({bus[i] : i \in 1..Len(bus)}) = Len(busAtStart)
    /\ Cardinality(Ops("ChangeId")) <= 1

\* C10 witness: a run changed the ID of one of two connected servos
C10_Witness == Len(bus) = 2 /\ bus # busAtStart /\ pc = "done"

====
